---- MODULE Spec2Model ----
(***************************************************************************)
(* One session of the first-aid coach backend: the gateway                 *)
(* (app.py websocket_endpoint), the Orchestrator (orchestrator.py) with    *)
(* its four asyncio tasks, and the SessionLogger lists the handlers write. *)
(*                                                                         *)
(* Granularity.  asyncio runs one task at a time and switches tasks only   *)
(* at an await.  Every action below is one such run: it resumes a task at  *)
(* the await it is suspended in and executes the code up to and including  *)
(* the start of the next awaited call.  A send on a websocket that is open *)
(* hands the message to the transport when it is called and then suspends  *)
(* the caller until the write has drained; a send on a closed websocket    *)
(* raises.                                                                 *)
(*                                                                         *)
(* Time.  time.time() is the variable now, in seconds.  It advances in     *)
(* steps (StepPoll, StepQuiet); asyncio.sleep(d) returns at the first      *)
(* step at which d seconds have gone by (asyncio promises no less, and no  *)
(* more precisely).  The clock stops at a horizon, sleeps do not.          *)
(***************************************************************************)
EXTENDS Integers, Sequences, FiniteSets, TLC

\* ---------------------------------------------------------------- bounds
\* Per specification: how far the clock runs (seconds), how many events the
\* upstream service emits, how many messages the client sends, how many
\* scene observations are accepted.
HorizonTool == 15
EventsTool == 1
HorizonFollowUp == 75
EventsFollowUp == 2
HorizonScene == 15
EventsScene == 1
MsgsScene == 2
ObsScene == 3
HorizonLife == 15
HorizonFault == 30
HorizonRelay == 10
HorizonCalls == 30
HorizonDelivery == 15
EventsDelivery == 1
MsgsDelivery == 1
ObsDelivery == 1
HorizonPace == 50
EventsPace == 2
HorizonTranscript == 30
EventsTranscript == 4
EventsCalls == 2
EventsRelay == 3
MsgsRelay == 2
EventsFault == 1
MsgsFault == 1

\* ------------------------------------------------------ program constants
SCENE_ANALYSIS_INTERVAL == 8
SCENE_WARMUP == 3
FOLLOW_UP_WARMUP == 5
FOLLOW_UP_POLL == 5
FIRST_THRESHOLD == 30
NEXT_THRESHOLD == 45
AGENT_QUIET == 15
MAX_FOLLOW_UPS == 3
PREFIX_LEN == 50

\* The steps of the clock: the follow-up poll interval, and the largest step
\* that divides the follow-up thresholds.
StepPoll == FOLLOW_UP_POLL
StepQuiet == AGENT_QUIET

\* ----------------------------------------------------------------- values
None == "None"
EmptyMap == [k \in {} |-> ""]

Max0(n) == IF n > 0 THEN n ELSE 0

Rep(c, n) == [i \in 1..n |-> c]

\* str.lower() of one character.
LowerChar(c) == IF c = "A" THEN "a" ELSE IF c = "B" THEN "b" ELSE c

Lower(s) == [i \in 1..Len(s) |-> LowerChar(s[i])]

RECURSIVE LStrip(_)
LStrip(s) == IF s # <<>> /\ Head(s) = " " THEN LStrip(Tail(s)) ELSE s

RECURSIVE RStrip(_)
RStrip(s) ==
  IF s # <<>> /\ s[Len(s)] = " " THEN RStrip(SubSeq(s, 1, Len(s) - 1)) ELSE s

\* str.strip()
Strip(s) == RStrip(LStrip(s))

\* s[:n]
Prefix(s, n) == SubSeq(s, 1, IF Len(s) < n THEN Len(s) ELSE n)

\* new[:50].lower().strip()
Normalize(s) == Strip(Lower(Prefix(s, PREFIX_LEN)))

\* _is_similar gone wrong: the whole texts are compared, not their prefixes.
IsSimilarWholeText(new, old) ==
  IF old = <<>> THEN FALSE ELSE Strip(Lower(new)) = Strip(Lower(old))

\* Orchestrator._is_similar
IsSimilar(new, old) ==
  IF old = <<>> THEN FALSE ELSE Normalize(new) = Normalize(old)

\* dict.get(k, d)
Get(m, k, d) == IF k \in DOMAIN m THEN m[k] ELSE d

\* str.upper() on the scenario names of the tool catalog.
Upper(s) ==
  CASE s = "cpr" -> "CPR"
    [] s = "bleeding" -> "BLEEDING"
    [] s = "choking" -> "CHOKING"
    [] s = "minor_injury" -> "MINOR_INJURY"
    [] s = "resolved" -> "RESOLVED"
    [] s = "none" -> "NONE"
    [] OTHER -> s

\* json.loads(args_str) in _handle_tool_call.  The payload is given by the
\* shape of its text: a JSON object (with its members), text that is not
\* JSON, JSON that is not an object, and no text at all (null).
JsonLoads(args_str) ==
  CASE args_str.kind = "object" -> [exc |-> "no", dict |-> TRUE, value |-> args_str.value]
    [] args_str.kind = "invalid" -> [exc |-> "JSONDecodeError", dict |-> FALSE, value |-> EmptyMap]
    [] args_str.kind = "array" -> [exc |-> "no", dict |-> FALSE, value |-> EmptyMap]
    [] OTHER -> [exc |-> "TypeError", dict |-> FALSE, value |-> EmptyMap]

\* ------------------------------------------------------------ environment
\* What the client may send: audio and frame messages, a message of another
\* type, and one whose handling raises (text that is not JSON, JSON that is
\* not an object, a message without "data").
ClientMsgs ==
  { [type |-> "audio", data |-> "a1"],
    [type |-> "audio", data |-> "a2"],
    [type |-> "frame", data |-> "f1"],
    [type |-> "frame", data |-> "f2"],
    [type |-> "ping", data |-> ""],
    [type |-> "malformed", data |-> ""] }

\* Argument payloads of function calls.
ArgPayloads ==
  { [kind |-> "object", value |-> [scenario |-> "cpr", severity |-> "critical",
                                    summary |-> "not breathing", body_region |-> "chest"]],
    [kind |-> "object", value |-> [scenario |-> "cpr", severity |-> "minor",
                                    summary |-> "not breathing", body_region |-> "chest"]],
    [kind |-> "object", value |-> [scenario |-> "bleeding", severity |-> "moderate",
                                    summary |-> "cut on forearm", body_region |-> "left_arm"]],
    [kind |-> "object", value |-> [scenario |-> "resolved", severity |-> "critical"]],
    [kind |-> "object", value |-> [summary |-> "unclear"]],
    [kind |-> "invalid", value |-> EmptyMap],
    [kind |-> "array", value |-> EmptyMap],
    [kind |-> "null", value |-> EmptyMap] }

ToolNames == {"set_scenario", "start_metronome"}

Transcripts == {"my arm is bleeding"}

Deltas == {"d1", "d2"}

AudioDeltas == {"pcm1", "pcm2"}

\* The events the upstream service may emit.  A function call's call_id is
\* given by the relay's count of events, so no two calls share one.
UpstreamEvents ==
  { [type |-> t] : t \in {"response.created", "response.done",
                          "response.audio_transcript.done",
                          "input_audio_buffer.speech_started",
                          "session.created", "rate_limits.updated", "undecodable"} }
  \cup { [type |-> "response.audio.delta", delta |-> d] : d \in AudioDeltas }
  \cup { [type |-> "response.audio_transcript.delta", delta |-> d] : d \in Deltas }
  \cup { [type |-> "conversation.item.input_audio_transcription.completed",
          transcript |-> t] : t \in Transcripts }
  \cup { [type |-> "error", code |-> c] :
           c \in {"conversation_already_has_active_response", "server_error"} }
  \cup { [type |-> "response.output_item.done", item_type |-> "message"] }
  \cup { [type |-> "response.output_item.done", item_type |-> "function_call",
          name |-> n, arguments |-> a] : n \in ToolNames, a \in ArgPayloads }

\* What analyze_scene may return: a description, or nothing (None, which is
\* also what a failure inside it collapses to).
ObsA1 == Rep("a", PREFIX_LEN) \o <<"x">>
ObsA2 == <<"A">> \o Rep("a", PREFIX_LEN - 1) \o <<"y">>
ObsB == <<" ", "b">>
Observations == {ObsA1, ObsA2, ObsB}

\* ---------------------------------------------------------------- state
VARIABLES
  now,                      \* time.time()
  ios_state,                \* the client websocket: "open" | "closed"
  ios_received,             \* the messages the client relay has received
  ios_sent,                 \* the calls of ios_ws.send_json: [msg, ok]
  rt_ws,                    \* self.rt_ws: None | "open" | "closed"
  rt_sent,                  \* the messages handed to rt_ws.send
  rt_recv_count,            \* the events the upstream relay has received
  rt_received,              \* history: those events, in order
  rt_close_calls,           \* the calls of rt_ws.close()
  latest_frame_b64,
  recent_user_transcript,
  scenario_state,
  scenario_severity,
  _shutdown,
  _response_in_progress,
  _last_scene_observation,
  _last_user_speech_time,
  _last_agent_speech_time,
  _follow_up_count,
  _current_assistant_text,
  transcript_entries,       \* SessionLogger.transcript_entries
  scene_observations,       \* SessionLogger.scene_observations
  scenario_updates,         \* SessionLogger.scenario_updates
  tool_calls,               \* SessionLogger.tool_calls
  log_saved,                \* save_session_log/generate_ems_report: "no" | "saved" | "failed"
  gw_pc,                    \* websocket_endpoint / Orchestrator.run
  ios_pc,                   \* _ios_to_realtime_loop
  rt_pc,                    \* _realtime_to_ios_loop
  event,                    \* its local: the event being handled
  call_id,                  \* _handle_tool_call's local
  sc_pc,                    \* _scene_analysis_loop
  sc_sleep,                 \* seconds left of its asyncio.sleep
  analyze_calls,            \* the latest call of analyze_scene, if any: its arguments
  fu_pc,                    \* _follow_up_loop
  fu_sleep,                 \* seconds left of its asyncio.sleep
  fu_now,                   \* its local: now
  fu_prompt,                \* its local: prompt
  follow_ups_since_speech   \* history: the follow-ups injected since the user last spoke

env == <<now, ios_state, ios_received, ios_sent, rt_sent, rt_recv_count, rt_received, rt_close_calls>>
orch == <<rt_ws, latest_frame_b64, recent_user_transcript, scenario_state,
          scenario_severity, _shutdown, _response_in_progress,
          _last_scene_observation, _last_user_speech_time,
          _last_agent_speech_time, _follow_up_count, _current_assistant_text>>
logger == <<transcript_entries, scene_observations, scenario_updates, tool_calls, log_saved>>
pcs == <<gw_pc, ios_pc, rt_pc, event, call_id, sc_pc, sc_sleep, analyze_calls,
         fu_pc, fu_sleep, fu_now, fu_prompt>>
vars == <<env, orch, logger, pcs, follow_ups_since_speech>>

NoEvent == [type |-> "none"]

\* Orchestrator.__init__, after ws.accept()
Init ==
  /\ now = 0
  /\ ios_state = "open"
  /\ ios_received = <<>>
  /\ ios_sent = <<>>
  /\ rt_ws = None
  /\ rt_sent = <<>>
  /\ rt_recv_count = 0
  /\ rt_received = <<>>
  /\ rt_close_calls = 0
  /\ latest_frame_b64 = None
  /\ recent_user_transcript = ""
  /\ scenario_state = "NONE"
  /\ scenario_severity = "minor"
  /\ _shutdown = FALSE
  /\ _response_in_progress = FALSE
  /\ _last_scene_observation = <<>>
  /\ _last_user_speech_time = 0
  /\ _last_agent_speech_time = 0
  /\ _follow_up_count = 0
  /\ _current_assistant_text = <<>>
  /\ transcript_entries = <<>>
  /\ scene_observations = <<>>
  /\ scenario_updates = <<>>
  /\ tool_calls = <<>>
  /\ log_saved = "no"
  /\ gw_pc = "connect"
  /\ ios_pc = "idle"
  /\ rt_pc = "idle"
  /\ event = NoEvent
  /\ call_id = 0
  /\ sc_pc = "idle"
  /\ sc_sleep = 0
  /\ analyze_calls = <<>>
  /\ fu_pc = "idle"
  /\ fu_sleep = 0
  /\ fu_now = 0
  /\ fu_prompt = None
  /\ follow_ups_since_speech = 0

\* ------------------------------------------------------------ the clock
\* Time passes while the loops run: the clock advances by step seconds, up to
\* the horizon h, and every running sleep gets shorter.
Tick(step, h) ==
  /\ gw_pc = "gather"
  /\ now' = IF now + step <= h THEN now + step ELSE now
  /\ sc_sleep' = Max0(sc_sleep - step)
  /\ fu_sleep' = Max0(fu_sleep - step)
  /\ UNCHANGED <<ios_state, ios_received, ios_sent, rt_sent, rt_recv_count, rt_received,
                 rt_close_calls, orch, logger, gw_pc, ios_pc, rt_pc, event,
                 call_id, sc_pc, analyze_calls, fu_pc, fu_now, fu_prompt>>
  /\ UNCHANGED follow_ups_since_speech

\* ----------------------------------------------------------- the peers
\* The client goes away.
ClientDisconnect ==
  /\ ios_state = "open"
  /\ ios_state' = "closed"
  /\ UNCHANGED <<now, ios_received, ios_sent, rt_sent, rt_recv_count, rt_received,
                 rt_close_calls, orch, logger, pcs>>
  /\ UNCHANGED follow_ups_since_speech

\* The upstream service closes its connection.
UpstreamClose ==
  /\ rt_ws = "open"
  /\ rt_ws' = "closed"
  /\ UNCHANGED <<env, latest_frame_b64, recent_user_transcript, scenario_state,
                 scenario_severity, _shutdown, _response_in_progress,
                 _last_scene_observation, _last_user_speech_time,
                 _last_agent_speech_time, _follow_up_count,
                 _current_assistant_text, logger, pcs>>
  /\ UNCHANGED follow_ups_since_speech

\* ------------------------------------------- websocket_endpoint and run()
\* websockets.connect returns; _configure_session sends session.update.
GW_Connect ==
  /\ gw_pc = "connect"
  /\ rt_ws' = "open"
  /\ rt_sent' = Append(rt_sent, [type |-> "session.update"])
  /\ gw_pc' = "configure"
  /\ UNCHANGED <<now, ios_state, ios_received, ios_sent, rt_recv_count, rt_received,
                 rt_close_calls, latest_frame_b64, recent_user_transcript,
                 scenario_state, scenario_severity, _shutdown,
                 _response_in_progress, _last_scene_observation,
                 _last_user_speech_time, _last_agent_speech_time,
                 _follow_up_count, _current_assistant_text, logger, ios_pc,
                 rt_pc, event, call_id, sc_pc, sc_sleep, analyze_calls, fu_pc,
                 fu_sleep, fu_now, fu_prompt>>
  /\ UNCHANGED follow_ups_since_speech

\* websockets.connect raises: run() raises, the endpoint's finally runs.
GW_ConnectFail ==
  /\ gw_pc = "connect"
  /\ gw_pc' = "finally"
  /\ UNCHANGED <<env, orch, logger, ios_pc, rt_pc, event, call_id, sc_pc,
                 sc_sleep, analyze_calls, fu_pc, fu_sleep, fu_now, fu_prompt>>
  /\ UNCHANGED follow_ups_since_speech

\* The session.update send returns: gather starts the four loops, each of
\* which runs to its first await.
GW_Gather ==
  /\ gw_pc = "configure"
  /\ gw_pc' = "gather"
  /\ ios_pc' = "recv"
  /\ rt_pc' = "recv"
  /\ sc_pc' = "warmup"
  /\ sc_sleep' = SCENE_WARMUP
  /\ fu_pc' = "warmup"
  /\ fu_sleep' = FOLLOW_UP_WARMUP
  /\ UNCHANGED <<env, orch, logger, event, call_id, analyze_calls, fu_now, fu_prompt>>
  /\ UNCHANGED follow_ups_since_speech

\* gather(..., return_exceptions=True) returns once all four loops have
\* ended, whatever ended them; run() returns and the endpoint's finally runs.
GW_GatherDone ==
  /\ gw_pc = "gather"
  /\ ios_pc = "done" /\ rt_pc = "done" /\ sc_pc = "done" /\ fu_pc = "done"
  /\ gw_pc' = "finally"
  /\ UNCHANGED <<env, orch, logger, ios_pc, rt_pc, event, call_id, sc_pc,
                 sc_sleep, analyze_calls, fu_pc, fu_sleep, fu_now, fu_prompt>>
  /\ UNCHANGED follow_ups_since_speech

\* Cancellation gone wrong: the loops run detached from run() and are not
\* cancelled with it.
GW_CancelDetached ==
  /\ gw_pc \in {"configure", "gather"}
  /\ gw_pc' = "finally"
  /\ UNCHANGED <<env, orch, logger, ios_pc, rt_pc, event, call_id, sc_pc,
                 sc_sleep, analyze_calls, fu_pc, fu_sleep, fu_now, fu_prompt>>
  /\ UNCHANGED follow_ups_since_speech

\* Cancellation gone wrong: the client relay is left waiting for its next
\* message.
GW_CancelSparesClientRelay ==
  /\ gw_pc \in {"configure", "gather"}
  /\ gw_pc' = "finally"
  /\ rt_pc' = "done" /\ sc_pc' = "done" /\ fu_pc' = "done"
  /\ UNCHANGED <<env, orch, logger, ios_pc, event, call_id, sc_sleep,
                 analyze_calls, fu_sleep, fu_now, fu_prompt>>
  /\ UNCHANGED follow_ups_since_speech

\* The server cancels the endpoint's task (it is shutting down, or the
\* function's timeout is over): gather cancels the four loops, each ends at
\* the await it is suspended in, and the endpoint's finally runs.
GW_Cancel ==
  /\ gw_pc \in {"configure", "gather"}
  /\ gw_pc' = "finally"
  /\ ios_pc' = "done" /\ rt_pc' = "done" /\ sc_pc' = "done" /\ fu_pc' = "done"
  /\ UNCHANGED <<env, orch, logger, event, call_id, sc_sleep, analyze_calls,
                 fu_sleep, fu_now, fu_prompt>>
  /\ UNCHANGED follow_ups_since_speech

\* save_session_log and generate_ems_report write files: they work or raise.
SaveLogs(r) == r \in {"saved", "failed"}

\* shutdown gone wrong: the upstream connection is left open.
ShutdownNeverCloses ==
  /\ gw_pc = "finally"
  /\ _shutdown' = TRUE
  /\ gw_pc' = "closing"
  /\ UNCHANGED <<env, rt_ws, latest_frame_b64, recent_user_transcript,
                 scenario_state, scenario_severity, _response_in_progress,
                 _last_scene_observation, _last_user_speech_time,
                 _last_agent_speech_time, _follow_up_count,
                 _current_assistant_text, logger, ios_pc, rt_pc, event, call_id,
                 sc_pc, sc_sleep, analyze_calls, fu_pc, fu_sleep, fu_now, fu_prompt>>
  /\ UNCHANGED follow_ups_since_speech

\* Orchestrator.shutdown, to its await: the flag, and rt_ws.close() when
\* there is a connection.
Shutdown ==
  /\ gw_pc = "finally"
  /\ _shutdown' = TRUE
  /\ IF rt_ws # None
       THEN /\ rt_close_calls' = rt_close_calls + 1
            /\ rt_ws' = "closed"
            /\ gw_pc' = "closing"
            /\ UNCHANGED log_saved
       ELSE /\ \E r \in {"saved", "failed"} : SaveLogs(r) /\ log_saved' = r
            /\ gw_pc' = "cleaned"
            /\ UNCHANGED <<rt_close_calls, rt_ws>>
  /\ UNCHANGED <<now, ios_state, ios_received, ios_sent, rt_sent, rt_recv_count, rt_received,
                 latest_frame_b64, recent_user_transcript, scenario_state,
                 scenario_severity, _response_in_progress,
                 _last_scene_observation, _last_user_speech_time,
                 _last_agent_speech_time, _follow_up_count,
                 _current_assistant_text, transcript_entries,
                 scene_observations, scenario_updates, tool_calls, ios_pc,
                 rt_pc, event, call_id, sc_pc, sc_sleep, analyze_calls, fu_pc,
                 fu_sleep, fu_now, fu_prompt>>
  /\ UNCHANGED follow_ups_since_speech

\* shutdown gone wrong: a failure to save the logs leaves shutdown as an
\* exception, and the endpoint's finally block does not reach its end.
ShutdownSavePropagates ==
  /\ gw_pc = "closing"
  /\ \E r \in {"saved", "failed"} :
       /\ SaveLogs(r)
       /\ log_saved' = r
       /\ gw_pc' = IF r = "failed" THEN "raised" ELSE "cleaned"
  /\ UNCHANGED <<env, orch, transcript_entries, scene_observations,
                 scenario_updates, tool_calls, ios_pc, rt_pc, event, call_id,
                 sc_pc, sc_sleep, analyze_calls, fu_pc, fu_sleep, fu_now, fu_prompt>>
  /\ UNCHANGED follow_ups_since_speech

\* Orchestrator.shutdown, after rt_ws.close(): the logs are saved, and a
\* failure to save them is caught.
ShutdownSave ==
  /\ gw_pc = "closing"
  /\ \E r \in {"saved", "failed"} : SaveLogs(r) /\ log_saved' = r
  /\ gw_pc' = "cleaned"
  /\ UNCHANGED <<env, orch, transcript_entries, scene_observations,
                 scenario_updates, tool_calls, ios_pc, rt_pc, event, call_id,
                 sc_pc, sc_sleep, analyze_calls, fu_pc, fu_sleep, fu_now, fu_prompt>>
  /\ UNCHANGED follow_ups_since_speech

\* -------------------------------------------------- _ios_to_realtime_loop
\* while not self._shutdown
IosLoop == IF _shutdown THEN "done" ELSE "recv"

\* The frame store gone wrong: a frame already held is kept.
FrameStoreKeepsFirst(m) ==
  latest_frame_b64' = IF latest_frame_b64 = None THEN m.data ELSE latest_frame_b64

\* self.latest_frame_b64 = msg["data"]
FrameStore(m) == latest_frame_b64' = m.data

\* receive_text returns a message of the client.
IOS_Recv(m) ==
  /\ ios_pc = "recv"
  /\ ios_state = "open"
  /\ ios_received' = Append(ios_received, m)
  /\ CASE m.type = "malformed" ->
            /\ ios_pc' = "done"
            /\ UNCHANGED <<rt_sent, latest_frame_b64>>
       [] m.type = "audio" ->
            IF rt_ws = "open"
              THEN /\ rt_sent' = Append(rt_sent, [type |-> "input_audio_buffer.append",
                                                  audio |-> m.data])
                   /\ ios_pc' = "send"
                   /\ UNCHANGED latest_frame_b64
              ELSE /\ ios_pc' = "done"
                   /\ UNCHANGED <<rt_sent, latest_frame_b64>>
       [] m.type = "frame" ->
            /\ FrameStore(m)
            /\ ios_pc' = IosLoop
            /\ UNCHANGED rt_sent
       [] OTHER ->
            /\ ios_pc' = IosLoop
            /\ UNCHANGED <<rt_sent, latest_frame_b64>>
  /\ UNCHANGED <<now, ios_state, ios_sent, rt_recv_count, rt_received, rt_close_calls, rt_ws,
                 recent_user_transcript, scenario_state, scenario_severity,
                 _shutdown, _response_in_progress, _last_scene_observation,
                 _last_user_speech_time, _last_agent_speech_time,
                 _follow_up_count, _current_assistant_text, logger, gw_pc,
                 rt_pc, event, call_id, sc_pc, sc_sleep, analyze_calls, fu_pc,
                 fu_sleep, fu_now, fu_prompt>>
  /\ UNCHANGED follow_ups_since_speech

\* The send of the audio returns.
IOS_SendDone ==
  /\ ios_pc = "send"
  /\ ios_pc' = IosLoop
  /\ UNCHANGED <<env, orch, logger, gw_pc, rt_pc, event, call_id, sc_pc,
                 sc_sleep, analyze_calls, fu_pc, fu_sleep, fu_now, fu_prompt>>
  /\ UNCHANGED follow_ups_since_speech

\* receive_text raises WebSocketDisconnect: the loop ends.
IOS_Disconnected ==
  /\ ios_pc = "recv"
  /\ ios_state = "closed"
  /\ ios_pc' = "done"
  /\ UNCHANGED <<env, orch, logger, gw_pc, rt_pc, event, call_id, sc_pc,
                 sc_sleep, analyze_calls, fu_pc, fu_sleep, fu_now, fu_prompt>>
  /\ UNCHANGED follow_ups_since_speech

\* -------------------------------------------------- _realtime_to_ios_loop
\* _send_ios gone wrong: the newest message overtakes the ones before it.
SendIosNewestFirst(data) ==
  ios_sent' = <<[msg |-> data, ok |-> ios_state = "open"]>> \o ios_sent

\* _send_ios: ios_ws.send_json(data) is called; what it raises is swallowed.
\* ok tells whether the client connection took the message.
SendIos(data) == ios_sent' = Append(ios_sent, [msg |-> data, ok |-> ios_state = "open"])

\* What the relay and the tool call router never touch.
RtFrame ==
  UNCHANGED <<now, ios_state, ios_received, rt_close_calls, rt_ws,
              latest_frame_b64, _shutdown, _last_scene_observation,
              scene_observations, log_saved, gw_pc, ios_pc, sc_pc, sc_sleep,
              analyze_calls, fu_pc, fu_sleep, fu_now, fu_prompt>>

\* async for raw in self.rt_ws yields the next event of the given type.
RtNext(e, type) ==
  /\ rt_pc = "recv"
  /\ rt_ws = "open"
  /\ e.type = type
  /\ event' = e
  /\ rt_recv_count' = rt_recv_count + 1
  /\ rt_received' = Append(rt_received, e)

\* if self._shutdown: break
RtBreak ==
  /\ rt_pc' = "done"
  /\ UNCHANGED <<ios_sent, rt_sent, recent_user_transcript, scenario_state,
                 scenario_severity, _response_in_progress,
                 _last_user_speech_time, _last_agent_speech_time,
                 _follow_up_count, _current_assistant_text,
                 transcript_entries, scenario_updates, tool_calls, call_id>>

\* SessionLogger.log_user_transcript
LogUserTranscript(text) ==
  transcript_entries' = Append(transcript_entries, [role |-> "user", text |-> <<text>>])

\* SessionLogger.log_assistant_transcript
LogAssistantTranscript(text, is_delta) ==
  IF /\ is_delta
     /\ transcript_entries # <<>>
     /\ transcript_entries[Len(transcript_entries)].role = "assistant"
    THEN transcript_entries' =
           [transcript_entries EXCEPT ![Len(transcript_entries)].text = @ \o text]
    ELSE transcript_entries' =
           Append(transcript_entries, [role |-> "assistant", text |-> text])

\* response.audio.delta
RT_AudioDelta(e) ==
  /\ RtNext(e, "response.audio.delta")
  /\ IF _shutdown THEN RtBreak
     ELSE /\ SendIos([type |-> "audio", data |-> e.delta])
          /\ rt_pc' = "ios"
          /\ UNCHANGED <<rt_sent, recent_user_transcript, scenario_state,
                         scenario_severity, _response_in_progress,
                         _last_user_speech_time, _last_agent_speech_time,
                         _follow_up_count, _current_assistant_text,
                         transcript_entries, scenario_updates, tool_calls, call_id>>
  /\ RtFrame
  /\ UNCHANGED follow_ups_since_speech

\* response.created
RT_ResponseCreated(e) ==
  /\ RtNext(e, "response.created")
  /\ IF _shutdown THEN RtBreak
     ELSE /\ _response_in_progress' = TRUE
          /\ rt_pc' = "recv"
          /\ UNCHANGED <<ios_sent, rt_sent, recent_user_transcript,
                         scenario_state, scenario_severity,
                         _last_user_speech_time, _last_agent_speech_time,
                         _follow_up_count, _current_assistant_text,
                         transcript_entries, scenario_updates, tool_calls, call_id>>
  /\ RtFrame
  /\ UNCHANGED follow_ups_since_speech

\* response.done
RT_ResponseDone(e) ==
  /\ RtNext(e, "response.done")
  /\ IF _shutdown THEN RtBreak
     ELSE /\ _response_in_progress' = FALSE
          /\ _last_agent_speech_time' = now
          /\ rt_pc' = "recv"
          /\ UNCHANGED <<ios_sent, rt_sent, recent_user_transcript,
                         scenario_state, scenario_severity,
                         _last_user_speech_time, _follow_up_count,
                         _current_assistant_text, transcript_entries,
                         scenario_updates, tool_calls, call_id>>
  /\ RtFrame
  /\ UNCHANGED follow_ups_since_speech

\* response.audio_transcript.delta
RT_TranscriptDelta(e) ==
  /\ RtNext(e, "response.audio_transcript.delta")
  /\ IF _shutdown THEN RtBreak
     ELSE /\ _current_assistant_text' = Append(_current_assistant_text, e.delta)
          /\ LogAssistantTranscript(<<e.delta>>, TRUE)
          /\ SendIos([type |-> "transcript", role |-> "assistant", delta |-> e.delta])
          /\ rt_pc' = "ios"
          /\ UNCHANGED <<rt_sent, recent_user_transcript, scenario_state,
                         scenario_severity, _response_in_progress,
                         _last_user_speech_time, _last_agent_speech_time,
                         _follow_up_count, scenario_updates, tool_calls, call_id>>
  /\ RtFrame
  /\ UNCHANGED follow_ups_since_speech

\* response.audio_transcript.done
RT_TranscriptDone(e) ==
  /\ RtNext(e, "response.audio_transcript.done")
  /\ IF _shutdown THEN RtBreak
     ELSE /\ IF _current_assistant_text # <<>>
               THEN /\ LogAssistantTranscript(_current_assistant_text, FALSE)
                    /\ _current_assistant_text' = <<>>
               ELSE UNCHANGED <<transcript_entries, _current_assistant_text>>
          /\ SendIos([type |-> "transcript_done", role |-> "assistant"])
          /\ rt_pc' = "ios"
          /\ UNCHANGED <<rt_sent, recent_user_transcript, scenario_state,
                         scenario_severity, _response_in_progress,
                         _last_user_speech_time, _last_agent_speech_time,
                         _follow_up_count, scenario_updates, tool_calls, call_id>>
  /\ RtFrame
  /\ UNCHANGED follow_ups_since_speech

\* User speech gone wrong: the follow-up count is not reset.
UserSpeechKeepsCount(text) ==
  /\ follow_ups_since_speech' = 0
  /\ recent_user_transcript' = text
  /\ _last_user_speech_time' = now
  /\ UNCHANGED _follow_up_count

\* lines 177-180: the fields a completed user transcription sets
UserSpeech(text) ==
  /\ follow_ups_since_speech' = 0
  /\ recent_user_transcript' = text
  /\ _last_user_speech_time' = now
  /\ _follow_up_count' = 0

\* conversation.item.input_audio_transcription.completed
RT_UserTranscript(e) ==
  /\ RtNext(e, "conversation.item.input_audio_transcription.completed")
  /\ IF _shutdown THEN RtBreak /\ UNCHANGED follow_ups_since_speech
     ELSE /\ UserSpeech(e.transcript)
          /\ LogUserTranscript(e.transcript)
          /\ SendIos([type |-> "transcript", role |-> "user", text |-> e.transcript])
          /\ rt_pc' = "ios"
          /\ UNCHANGED <<rt_sent, scenario_state, scenario_severity,
                         _response_in_progress, _last_agent_speech_time,
                         _current_assistant_text, scenario_updates, tool_calls,
                         call_id>>
  /\ RtFrame

\* Barge-in gone wrong: the assistant text gathered so far is kept.
RT_SpeechStartedKeepsText(e) ==
  /\ RtNext(e, "input_audio_buffer.speech_started")
  /\ IF _shutdown THEN RtBreak /\ UNCHANGED follow_ups_since_speech
     ELSE /\ _response_in_progress' = FALSE
          /\ _last_user_speech_time' = now
          /\ _follow_up_count' = 0
          /\ follow_ups_since_speech' = 0
          /\ SendIos([type |-> "interrupt"])
          /\ rt_pc' = "ios"
          /\ UNCHANGED <<rt_sent, recent_user_transcript, scenario_state,
                         scenario_severity, _last_agent_speech_time,
                         _current_assistant_text,
                         transcript_entries, scenario_updates, tool_calls, call_id>>
  /\ RtFrame

\* input_audio_buffer.speech_started
RT_SpeechStarted(e) ==
  /\ RtNext(e, "input_audio_buffer.speech_started")
  /\ IF _shutdown THEN RtBreak /\ UNCHANGED follow_ups_since_speech
     ELSE /\ _response_in_progress' = FALSE
          /\ _last_user_speech_time' = now
          /\ _follow_up_count' = 0
          /\ follow_ups_since_speech' = 0
          /\ _current_assistant_text' = <<>>
          /\ SendIos([type |-> "interrupt"])
          /\ rt_pc' = "ios"
          /\ UNCHANGED <<rt_sent, recent_user_transcript, scenario_state,
                         scenario_severity, _last_agent_speech_time,
                         transcript_entries, scenario_updates, tool_calls, call_id>>
  /\ RtFrame

\* error, session.created/session.updated, response.output_item.done whose
\* item is no function call, and every event type the loop has no branch for.
RT_Ignored(e) ==
  /\ \E t \in {"error", "session.created", "rate_limits.updated",
               "response.output_item.done"} : RtNext(e, t)
  /\ e.type = "response.output_item.done" => e.item_type # "function_call"
  /\ IF _shutdown THEN RtBreak
     ELSE /\ rt_pc' = "recv"
          /\ UNCHANGED <<ios_sent, rt_sent, recent_user_transcript,
                         scenario_state, scenario_severity,
                         _response_in_progress, _last_user_speech_time,
                         _last_agent_speech_time, _follow_up_count,
                         _current_assistant_text, transcript_entries,
                         scenario_updates, tool_calls, call_id>>
  /\ RtFrame
  /\ UNCHANGED follow_ups_since_speech

\* json.loads(raw) raises on a frame that is not JSON: the exception leaves
\* the loop and ends it.
RT_Undecodable(e) ==
  /\ RtNext(e, "undecodable")
  /\ IF _shutdown THEN RtBreak
     ELSE /\ rt_pc' = "done"
          /\ UNCHANGED <<ios_sent, rt_sent, recent_user_transcript,
                         scenario_state, scenario_severity,
                         _response_in_progress, _last_user_speech_time,
                         _last_agent_speech_time, _follow_up_count,
                         _current_assistant_text, transcript_entries,
                         scenario_updates, tool_calls, call_id>>
  /\ RtFrame
  /\ UNCHANGED follow_ups_since_speech

\* The await of _send_ios returns; the loop waits for the next event.
RT_IosDone ==
  /\ rt_pc = "ios"
  /\ rt_pc' = "recv"
  /\ UNCHANGED <<env, orch, logger, gw_pc, ios_pc, event, call_id, sc_pc,
                 sc_sleep, analyze_calls, fu_pc, fu_sleep, fu_now, fu_prompt>>
  /\ UNCHANGED follow_ups_since_speech

\* The upstream connection is closed: the async for ends.
RT_Closed ==
  /\ rt_pc = "recv"
  /\ rt_ws = "closed"
  /\ rt_pc' = "done"
  /\ UNCHANGED <<env, orch, logger, gw_pc, ios_pc, event, call_id, sc_pc,
                 sc_sleep, analyze_calls, fu_pc, fu_sleep, fu_now, fu_prompt>>
  /\ UNCHANGED follow_ups_since_speech

\* ------------------------------------------------------ _handle_tool_call
\* lines 376-381: json.loads with its except json.JSONDecodeError.  raised:
\* an exception the except clause does not catch.  dict: the value is a dict.
ParseArgs(args_str) ==
  LET r == JsonLoads(args_str)
  IN  IF r.exc = "JSONDecodeError"
        THEN [raised |-> FALSE, dict |-> TRUE, value |-> EmptyMap]
        ELSE [raised |-> r.exc # "no", dict |-> r.dict, value |-> r.value]

ScenarioUpdateMsg(args) ==
  [type |-> "scenario_update",
   scenario |-> Get(args, "scenario", "none"),
   severity |-> Get(args, "severity", "minor"),
   summary |-> Get(args, "summary", ""),
   body_region |-> Get(args, "body_region", "")]

\* set_scenario gone wrong: the scenario name is stored as it came.
SetScenarioNoUpper(args) ==
  /\ scenario_state' = Get(args, "scenario", "none")
  /\ scenario_severity' = Get(args, "severity", "minor")
  /\ scenario_updates' =
       Append(scenario_updates, [scenario |-> Get(args, "scenario", "none"),
                                 severity |-> Get(args, "severity", "minor"),
                                 summary |-> Get(args, "summary", ""),
                                 body_region |-> Get(args, "body_region", "")])

\* lines 387-393: the scenario fields and SessionLogger.log_scenario_update
\* (whose current_* fields are the last entry of scenario_updates).
SetScenario(args) ==
  /\ scenario_state' = Upper(Get(args, "scenario", "none"))
  /\ scenario_severity' = Get(args, "severity", "minor")
  /\ scenario_updates' =
       Append(scenario_updates, [scenario |-> Get(args, "scenario", "none"),
                                 severity |-> Get(args, "severity", "minor"),
                                 summary |-> Get(args, "summary", ""),
                                 body_region |-> Get(args, "body_region", "")])

\* response.output_item.done carrying a function call: _handle_tool_call to
\* its first await.  An exception json.loads or args.get raises leaves the
\* handler and the relay's loop, and ends the relay.
RT_ToolCall(e) ==
  /\ RtNext(e, "response.output_item.done")
  /\ e.item_type = "function_call"
  /\ IF _shutdown THEN RtBreak
     ELSE LET args == ParseArgs(e.arguments)
          IN  /\ call_id' = rt_recv_count + 1
              /\ IF args.raised \/ (e.name = "set_scenario" /\ ~args.dict)
                   THEN /\ rt_pc' = "done"
                        /\ UNCHANGED <<ios_sent, scenario_state,
                                       scenario_severity, scenario_updates,
                                       tool_calls>>
                   ELSE IF e.name = "set_scenario"
                   THEN /\ SetScenario(args.value)
                        /\ SendIos(ScenarioUpdateMsg(args.value))
                        /\ rt_pc' = "tool_ios"
                        /\ UNCHANGED tool_calls
                   ELSE /\ tool_calls' = Append(tool_calls, [tool |-> e.name,
                                                             params |-> args.value])
                        /\ SendIos([type |-> "tool", name |-> e.name,
                                    params |-> args.value])
                        /\ rt_pc' = "tool_ios"
                        /\ UNCHANGED <<scenario_state, scenario_severity,
                                       scenario_updates>>
              /\ UNCHANGED <<rt_sent, recent_user_transcript,
                             _response_in_progress, _last_user_speech_time,
                             _last_agent_speech_time, _follow_up_count,
                             _current_assistant_text, transcript_entries>>
  /\ RtFrame
  /\ UNCHANGED follow_ups_since_speech

\* What a tool call step leaves alone besides RtFrame.
ToolFrame ==
  UNCHANGED <<ios_sent, rt_recv_count, rt_received, recent_user_transcript, scenario_state,
              scenario_severity, _last_user_speech_time,
              _last_agent_speech_time, _follow_up_count,
              _current_assistant_text, transcript_entries, scenario_updates,
              tool_calls, event, call_id>>

\* _send_ios gone wrong: a message the client did not take raises in the
\* handler, and the relay ends.
RT_ToolAckNeedsClient ==
  /\ rt_pc = "tool_ios"
  /\ IF rt_ws = "open" /\ ios_sent[Len(ios_sent)].ok
       THEN /\ rt_sent' = Append(rt_sent, [type |-> "conversation.item.create",
                                           item_type |-> "function_call_output",
                                           call_id |-> call_id,
                                           output |-> [status |-> "ok"]])
            /\ rt_pc' = "tool_ack"
       ELSE /\ rt_pc' = "done"
            /\ UNCHANGED rt_sent
  /\ UNCHANGED _response_in_progress
  /\ ToolFrame
  /\ RtFrame
  /\ UNCHANGED follow_ups_since_speech

\* lines 408-419: _send_ios has returned; the function_call_output is sent.
RT_ToolAck ==
  /\ rt_pc = "tool_ios"
  /\ IF rt_ws = "open"
       THEN /\ rt_sent' = Append(rt_sent, [type |-> "conversation.item.create",
                                           item_type |-> "function_call_output",
                                           call_id |-> call_id,
                                           output |-> [status |-> "ok"]])
            /\ rt_pc' = "tool_ack"
       ELSE /\ rt_pc' = "done"
            /\ UNCHANGED rt_sent
  /\ UNCHANGED _response_in_progress
  /\ ToolFrame
  /\ RtFrame
  /\ UNCHANGED follow_ups_since_speech

\* The continuation gone wrong: _response_in_progress is left as it was.
RT_ToolContinueKeepsFlag ==
  /\ rt_pc = "tool_ack"
  /\ UNCHANGED _response_in_progress
  /\ IF rt_ws = "open"
       THEN /\ rt_sent' = Append(rt_sent, [type |-> "response.create",
                                           origin |-> "tool_call",
                                           call_id |-> call_id])
            /\ rt_pc' = "tool_cont"
       ELSE /\ rt_pc' = "done"
            /\ UNCHANGED rt_sent
  /\ ToolFrame
  /\ RtFrame
  /\ UNCHANGED follow_ups_since_speech

\* lines 421-422: the acknowledgment is sent; response.create is sent.  The
\* fields origin and call_id of a response.create are the model's record of
\* who sent it; the message itself has the type alone.
RT_ToolContinue ==
  /\ rt_pc = "tool_ack"
  /\ _response_in_progress' = FALSE
  /\ IF rt_ws = "open"
       THEN /\ rt_sent' = Append(rt_sent, [type |-> "response.create",
                                           origin |-> "tool_call",
                                           call_id |-> call_id])
            /\ rt_pc' = "tool_cont"
       ELSE /\ rt_pc' = "done"
            /\ UNCHANGED rt_sent
  /\ ToolFrame
  /\ RtFrame
  /\ UNCHANGED follow_ups_since_speech

\* _handle_tool_call returns; the loop waits for the next event.
RT_ToolDone ==
  /\ rt_pc = "tool_cont"
  /\ rt_pc' = "recv"
  /\ UNCHANGED <<rt_sent, _response_in_progress>>
  /\ ToolFrame
  /\ RtFrame
  /\ UNCHANGED follow_ups_since_speech

\* --------------------------------------------------- _scene_analysis_loop
\* while not self._shutdown: await asyncio.sleep(SCENE_ANALYSIS_INTERVAL)
ScLoop ==
  IF _shutdown
    THEN sc_pc' = "done" /\ UNCHANGED sc_sleep
    ELSE sc_pc' = "sleep" /\ sc_sleep' = SCENE_ANALYSIS_INTERVAL

\* What the scene loop never touches.
ScFrame ==
  UNCHANGED <<now, ios_state, ios_received, rt_recv_count, rt_received, rt_close_calls,
              rt_ws, latest_frame_b64, recent_user_transcript, scenario_state,
              scenario_severity, _shutdown, _response_in_progress,
              _last_user_speech_time, _last_agent_speech_time,
              _follow_up_count, _current_assistant_text, transcript_entries,
              scenario_updates, tool_calls, log_saved, gw_pc, ios_pc, rt_pc,
              event, call_id, fu_pc, fu_sleep, fu_now, fu_prompt>>

\* The warm-up sleep is over.
SC_WarmupDone ==
  /\ sc_pc = "warmup"
  /\ sc_sleep = 0
  /\ ScLoop
  /\ UNCHANGED <<ios_sent, rt_sent, _last_scene_observation,
                 scene_observations, analyze_calls>>
  /\ ScFrame
  /\ UNCHANGED follow_ups_since_speech

\* lines 225-229: the arguments of analyze_scene.  received is the model's
\* record of how many client messages had been received at the call.
AnalyzeArgs ==
  [frame_b64 |-> latest_frame_b64,
   scenario_state |-> scenario_state,
   recent_transcript |-> recent_user_transcript,
   received |-> Len(ios_received)]

\* The interval sleep is over: lines 219-229.
SC_Tick ==
  /\ sc_pc = "sleep"
  /\ sc_sleep = 0
  /\ IF latest_frame_b64 \in {None, ""} \/ _response_in_progress
       THEN ScLoop /\ UNCHANGED analyze_calls
       ELSE /\ sc_pc' = "analyze"
            /\ analyze_calls' = <<AnalyzeArgs>>
            /\ UNCHANGED sc_sleep
  /\ UNCHANGED <<ios_sent, rt_sent, _last_scene_observation, scene_observations>>
  /\ ScFrame
  /\ UNCHANGED follow_ups_since_speech

\* What analyze_scene returns: an observation, or <<>> for None and "".
AnalysisResults == Observations \cup {<<>>}

\* analyze_scene returns: lines 230-254.  A send that raises is caught by
\* the except Exception inside the loop.
SC_Analyzed(observation) ==
  /\ sc_pc = "analyze"
  /\ observation \in AnalysisResults
  /\ IF observation = <<>> \/ IsSimilar(observation, _last_scene_observation)
       THEN /\ ScLoop
            /\ UNCHANGED <<rt_sent, _last_scene_observation, scene_observations>>
       ELSE /\ _last_scene_observation' = observation
            /\ scene_observations' = Append(scene_observations, observation)
            /\ IF rt_ws = "open"
                 THEN /\ rt_sent' = Append(rt_sent, [type |-> "conversation.item.create",
                                                     item_type |-> "message",
                                                     tag |-> "SCENE UPDATE",
                                                     text |-> observation])
                      /\ sc_pc' = "send"
                      /\ UNCHANGED sc_sleep
                 ELSE ScLoop /\ UNCHANGED rt_sent
  /\ UNCHANGED <<ios_sent, analyze_calls>>
  /\ ScFrame
  /\ UNCHANGED follow_ups_since_speech

\* The send upstream returns: lines 257-259.
SC_Sent ==
  /\ sc_pc = "send"
  /\ SendIos([type |-> "scene_update", observation |-> _last_scene_observation])
  /\ sc_pc' = "ios"
  /\ UNCHANGED <<rt_sent, _last_scene_observation, scene_observations,
                 analyze_calls, sc_sleep>>
  /\ ScFrame
  /\ UNCHANGED follow_ups_since_speech

\* _send_ios returns; the loop goes round.
SC_IosDone ==
  /\ sc_pc = "ios"
  /\ ScLoop
  /\ UNCHANGED <<ios_sent, rt_sent, _last_scene_observation,
                 scene_observations, analyze_calls>>
  /\ ScFrame
  /\ UNCHANGED follow_ups_since_speech

\* --------------------------------------------------------- _follow_up_loop
\* while not self._shutdown: await asyncio.sleep(5.0)
FuLoop ==
  IF _shutdown
    THEN fu_pc' = "done" /\ UNCHANGED fu_sleep
    ELSE fu_pc' = "sleep" /\ fu_sleep' = FOLLOW_UP_POLL

\* What the follow-up loop never touches.
FuFrame ==
  UNCHANGED <<now, ios_state, ios_received, ios_sent, rt_recv_count, rt_received,
              rt_close_calls, rt_ws, latest_frame_b64, recent_user_transcript,
              scenario_state, scenario_severity, _shutdown,
              _response_in_progress, _last_scene_observation,
              _last_user_speech_time, logger, gw_pc, ios_pc, rt_pc, event,
              call_id, sc_pc, sc_sleep, analyze_calls>>

Inactive == {"NONE", "RESOLVED", "MINOR_INJURY"}

\* The tick's conditions gone wrong: no cap on the follow-ups.
FollowUpDueNoCap ==
  /\ ~_response_in_progress
  /\ scenario_state \notin Inactive
  /\ scenario_severity # "minor"
  /\ now - _last_user_speech_time >=
       (IF _follow_up_count = 0 THEN FIRST_THRESHOLD ELSE NEXT_THRESHOLD)
  /\ now - _last_agent_speech_time >= AGENT_QUIET

\* The tick's conditions gone wrong: the severity is not looked at.
FollowUpDueAnySeverity ==
  /\ ~_response_in_progress
  /\ scenario_state \notin Inactive
  /\ _follow_up_count < MAX_FOLLOW_UPS
  /\ now - _last_user_speech_time >=
       (IF _follow_up_count = 0 THEN FIRST_THRESHOLD ELSE NEXT_THRESHOLD)
  /\ now - _last_agent_speech_time >= AGENT_QUIET

\* The tick's conditions gone wrong: the scenario is not looked at.
FollowUpDueAnyScenario ==
  /\ ~_response_in_progress
  /\ scenario_severity # "minor"
  /\ _follow_up_count < MAX_FOLLOW_UPS
  /\ now - _last_user_speech_time >=
       (IF _follow_up_count = 0 THEN FIRST_THRESHOLD ELSE NEXT_THRESHOLD)
  /\ now - _last_agent_speech_time >= AGENT_QUIET

\* The conditions gone wrong: the agent may have spoken a moment ago.
FollowUpDueNoAgentQuiet ==
  /\ ~_response_in_progress
  /\ scenario_state \notin Inactive
  /\ scenario_severity # "minor"
  /\ _follow_up_count < MAX_FOLLOW_UPS
  /\ now - _last_user_speech_time >=
       (IF _follow_up_count = 0 THEN FIRST_THRESHOLD ELSE NEXT_THRESHOLD)

\* lines 286-308: the conditions under which a tick goes on to follow up.
FollowUpDue ==
  /\ ~_response_in_progress
  /\ scenario_state \notin Inactive
  /\ scenario_severity # "minor"
  /\ _follow_up_count < MAX_FOLLOW_UPS
  /\ now - _last_user_speech_time >=
       (IF _follow_up_count = 0 THEN FIRST_THRESHOLD ELSE NEXT_THRESHOLD)
  /\ now - _last_agent_speech_time >= AGENT_QUIET

\* _build_follow_up_prompt: the ladder of the scenario (three phrasings for
\* CPR, BLEEDING and CHOKING, one otherwise), the rung, and the silence named.
BuildFollowUpPrompt(elapsed) ==
  LET ladder == IF scenario_state \in {"CPR", "BLEEDING", "CHOKING"}
                  THEN scenario_state ELSE "generic"
      len == IF ladder = "generic" THEN 1 ELSE 3
  IN  [ladder |-> ladder,
       idx |-> IF _follow_up_count < len - 1 THEN _follow_up_count ELSE len - 1,
       elapsed |-> elapsed]

\* The warm-up sleep is over.
FU_WarmupDone ==
  /\ fu_pc = "warmup"
  /\ fu_sleep = 0
  /\ FuLoop
  /\ UNCHANGED <<rt_sent, _last_agent_speech_time, _follow_up_count,
                 _current_assistant_text, fu_now, fu_prompt>>
  /\ FuFrame
  /\ UNCHANGED follow_ups_since_speech

\* The poll sleep is over: lines 286-332.  A send that raises leaves the
\* loop, which catches CancelledError alone, and ends it.
FU_Tick ==
  /\ fu_pc = "sleep"
  /\ fu_sleep = 0
  /\ IF ~FollowUpDue
       THEN /\ FuLoop
            /\ UNCHANGED <<rt_sent, fu_now, fu_prompt, follow_ups_since_speech>>
       ELSE /\ fu_now' = now
            /\ fu_prompt' = BuildFollowUpPrompt(now - _last_user_speech_time)
            /\ UNCHANGED fu_sleep
            /\ IF rt_ws = "open"
                 THEN /\ rt_sent' = Append(rt_sent, [type |-> "conversation.item.create",
                                                     item_type |-> "message",
                                                     tag |-> "FOLLOW UP",
                                                     text |-> fu_prompt'])
                      /\ fu_pc' = "send_item"
                      /\ follow_ups_since_speech' = follow_ups_since_speech + 1
                 ELSE /\ fu_pc' = "done"
                      /\ UNCHANGED <<rt_sent, follow_ups_since_speech>>
  /\ UNCHANGED <<_last_agent_speech_time, _follow_up_count, _current_assistant_text>>
  /\ FuFrame

\* The second send gone wrong: its failure is raised into run(), as gather
\* without return_exceptions would have it.
FU_ItemSentRaises ==
  /\ fu_pc = "send_item"
  /\ IF rt_ws = "open"
       THEN /\ rt_sent' = Append(rt_sent, [type |-> "response.create",
                                           origin |-> "follow_up",
                                           call_id |-> 0])
            /\ fu_pc' = "send_response"
            /\ UNCHANGED gw_pc
       ELSE /\ fu_pc' = "done"
            /\ gw_pc' = "finally"
            /\ UNCHANGED rt_sent
  /\ UNCHANGED <<_last_agent_speech_time, _follow_up_count,
                 _current_assistant_text, fu_sleep, fu_now, fu_prompt>>
  /\ UNCHANGED <<now, ios_state, ios_received, ios_sent, rt_recv_count,
                 rt_received, rt_close_calls, rt_ws, latest_frame_b64,
                 recent_user_transcript, scenario_state, scenario_severity,
                 _shutdown, _response_in_progress, _last_scene_observation,
                 _last_user_speech_time, logger, ios_pc, rt_pc, event,
                 call_id, sc_pc, sc_sleep, analyze_calls>>
  /\ UNCHANGED follow_ups_since_speech

\* line 333: the item is sent; response.create is sent.
FU_ItemSent ==
  /\ fu_pc = "send_item"
  /\ IF rt_ws = "open"
       THEN /\ rt_sent' = Append(rt_sent, [type |-> "response.create",
                                           origin |-> "follow_up",
                                           call_id |-> 0])
            /\ fu_pc' = "send_response"
       ELSE /\ fu_pc' = "done"
            /\ UNCHANGED rt_sent
  /\ UNCHANGED <<_last_agent_speech_time, _follow_up_count,
                 _current_assistant_text, fu_sleep, fu_now, fu_prompt>>
  /\ FuFrame
  /\ UNCHANGED follow_ups_since_speech

\* The follow-up's end gone wrong: the agent's time is left as it was.
FU_ResponseSentKeepsAgentTime ==
  /\ fu_pc = "send_response"
  /\ _follow_up_count' = _follow_up_count + 1
  /\ FuLoop
  /\ UNCHANGED <<rt_sent, _last_agent_speech_time, _current_assistant_text,
                 fu_now, fu_prompt>>
  /\ FuFrame
  /\ UNCHANGED follow_ups_since_speech

\* lines 335-336: response.create is sent; the count and the agent's time.
FU_ResponseSent ==
  /\ fu_pc = "send_response"
  /\ _follow_up_count' = _follow_up_count + 1
  /\ _last_agent_speech_time' = fu_now
  /\ FuLoop
  /\ UNCHANGED <<rt_sent, _current_assistant_text, fu_now, fu_prompt>>
  /\ FuFrame
  /\ UNCHANGED follow_ups_since_speech

\* ----------------------------------------------------- the specifications
\* The program is the same in every specification; what differs is what its
\* peers do (which messages the client sends, which events the upstream
\* service emits, what scene analysis returns) and how far the clock runs.
\* A specification leaves out the steps its peers never enable.

\* The steps every specification has: the session starts and the two
\* periodic loops poll.
Core ==
  \/ GW_Connect \/ GW_Gather
  \/ SC_WarmupDone \/ SC_Tick
  \/ FU_WarmupDone \/ FU_Tick

\* The session ends: a peer goes away, the connection cannot be made, the
\* server cancels the endpoint; shutdown.  GW_GatherDone is not among them:
\* no run of the program enables it, since the scene loop leaves its while
\* only when _shutdown is set, which shutdown() does after gather returned.
Teardown ==
  \/ ClientDisconnect \/ UpstreamClose
  \/ IOS_Disconnected \/ RT_Closed
  \/ GW_ConnectFail \/ GW_Cancel
  \/ Shutdown \/ ShutdownSave

ToolRouter == RT_ToolAck \/ RT_ToolContinue \/ RT_ToolDone

\* The session's lifecycle: no messages, no events.
NextLife == Tick(StepPoll, HorizonLife) \/ Core \/ Teardown

SpecLife == Init /\ [][NextLife]_vars

\* The event loop runs every task that can run, the clock does not stop, and
\* the endpoint's finally block runs to its end.  Nothing obliges a peer to
\* go away or the server to cancel the endpoint.
FairLife ==
  /\ SpecLife
  /\ WF_vars(Tick(StepPoll, HorizonLife))
  /\ WF_vars(GW_Connect \/ GW_Gather \/ Shutdown \/ ShutdownSave)
  /\ WF_vars(IOS_Disconnected)
  /\ WF_vars(RT_Closed)
  /\ WF_vars(SC_WarmupDone \/ SC_Tick)
  /\ WF_vars(FU_WarmupDone \/ FU_Tick)

\* The tool call router: function calls of every payload shape, and a frame
\* that is not JSON.
ToolEvents ==
  { e \in UpstreamEvents :
      e.type \in {"response.output_item.done", "response.created", "undecodable"} }

NextTool ==
  \/ Tick(StepPoll, HorizonTool)
  \/ Core
  \/ Teardown
  \/ /\ rt_recv_count < EventsTool
     /\ \E e \in ToolEvents :
          \/ RT_ToolCall(e) \/ RT_Ignored(e) \/ RT_ResponseCreated(e)
          \/ RT_Undecodable(e)
  \/ ToolRouter

SpecTool == Init /\ [][NextTool]_vars

\* The follow-up scheduler: scenario updates, user speech, responses.
FollowUpEvents ==
  { e \in UpstreamEvents :
      \/ e.type \in {"response.created", "response.done",
                     "input_audio_buffer.speech_started",
                     "conversation.item.input_audio_transcription.completed"}
      \/ /\ e.type = "response.output_item.done"
         /\ e.item_type = "function_call"
         /\ e.name = "set_scenario"
         /\ e.arguments.kind = "object"
         /\ "scenario" \in DOMAIN e.arguments.value
         /\ e.arguments.value.scenario # "bleeding" }

NextFollowUp ==
  \/ Tick(StepQuiet, HorizonFollowUp)
  \/ Core
  \/ /\ rt_recv_count < EventsFollowUp
     /\ \E e \in FollowUpEvents :
          \/ RT_ToolCall(e) \/ RT_ResponseCreated(e) \/ RT_ResponseDone(e)
          \/ RT_UserTranscript(e) \/ RT_SpeechStarted(e)
  \/ RT_IosDone
  \/ ToolRouter
  \/ FU_ItemSent \/ FU_ResponseSent

SpecFollowUp == Init /\ [][NextFollowUp]_vars

\* The scene analysis trigger: frames and a message that is none,
\* observations, responses.
SceneMsgs == { m \in ClientMsgs : m.type \in {"frame", "ping"} }

SceneEvents == { e \in UpstreamEvents : e.type \in {"response.created", "response.done"} }

NextScene ==
  \/ Tick(StepPoll, HorizonScene)
  \/ Core
  \/ /\ Len(ios_received) < MsgsScene
     /\ \E m \in SceneMsgs : IOS_Recv(m)
  \/ /\ rt_recv_count < EventsScene
     /\ \E e \in SceneEvents : RT_ResponseCreated(e) \/ RT_ResponseDone(e)
  \/ /\ Len(scene_observations) < ObsScene
     /\ \E o \in AnalysisResults : SC_Analyzed(o)
  \/ SC_Analyzed(<<>>)
  \/ SC_Sent \/ SC_IosDone

SpecScene == Init /\ [][NextScene]_vars

\* Failures: a client message the relay cannot handle, a frame upstream that
\* is not JSON, and a follow-up that is due when the upstream connection
\* has gone.
FaultMsgs == { m \in ClientMsgs : m.type = "malformed" \/ m.data \in {"a1", "f1"} }

FaultEvents ==
  { e \in UpstreamEvents :
      \/ e.type = "undecodable"
      \/ /\ e.type = "response.output_item.done"
         /\ e.item_type = "function_call"
         /\ e.name = "set_scenario"
         /\ e.arguments.kind = "object"
         /\ "severity" \in DOMAIN e.arguments.value
         /\ e.arguments.value.severity = "critical"
         /\ e.arguments.value.scenario = "cpr" }

NextFault ==
  \/ Tick(StepQuiet, HorizonFault)
  \/ Core
  \/ Teardown
  \/ /\ Len(ios_received) < MsgsFault
     /\ \E m \in FaultMsgs : IOS_Recv(m)
  \/ IOS_SendDone
  \/ /\ rt_recv_count < EventsFault
     /\ \E e \in FaultEvents : RT_ToolCall(e) \/ RT_Undecodable(e)
  \/ ToolRouter
  \/ FU_ItemSent \/ FU_ResponseSent

SpecFault == Init /\ [][NextFault]_vars

\* The two relays: audio both ways, with transcripts and a message of
\* another type in between.
RelayMsgs == { m \in ClientMsgs : m.type \in {"audio", "ping"} }

RelayEvents ==
  { e \in UpstreamEvents :
      e.type \in {"response.audio.delta", "response.audio_transcript.delta",
                  "response.created"} }

NextRelay ==
  \/ Tick(StepPoll, HorizonRelay)
  \/ Core
  \/ /\ Len(ios_received) < MsgsRelay
     /\ \E m \in RelayMsgs : IOS_Recv(m)
  \/ IOS_SendDone
  \/ /\ rt_recv_count < EventsRelay
     /\ \E e \in RelayEvents :
          \/ RT_AudioDelta(e) \/ RT_TranscriptDelta(e) \/ RT_ResponseCreated(e)
  \/ RT_IosDone

SpecRelay == Init /\ [][NextRelay]_vars

\* Tool calls one after another, with a response starting and the client
\* going away at any moment: set_scenario with arguments that are an object,
\* an object without the scenario, not JSON and an array, and another tool
\* with arguments that are an object and not JSON.
CallEvents ==
  { e \in UpstreamEvents :
      \/ e.type = "response.created"
      \/ /\ e.type = "response.output_item.done"
         /\ e.item_type = "function_call"
         /\ \/ e.arguments.kind = "invalid"
            \/ e.arguments.kind = "array" /\ e.name = "set_scenario"
            \/ /\ e.arguments.kind = "object"
               /\ "severity" \notin DOMAIN e.arguments.value
               /\ e.name = "set_scenario"
            \/ /\ e.arguments.kind = "object"
               /\ "severity" \in DOMAIN e.arguments.value
               /\ e.arguments.value.severity = "critical"
               /\ e.arguments.value.scenario = "cpr" }

NextCalls ==
  \/ Tick(StepQuiet, HorizonCalls)
  \/ Core
  \/ ClientDisconnect \/ IOS_Disconnected
  \/ /\ rt_recv_count < EventsCalls
     /\ \E e \in CallEvents : RT_ToolCall(e) \/ RT_ResponseCreated(e)
  \/ ToolRouter
  \/ FU_ItemSent \/ FU_ResponseSent

SpecCalls == Init /\ [][NextCalls]_vars

\* The assistant's transcript and barge-in: transcript deltas and their end,
\* the user starting to speak, a response starting, and a scenario in which
\* follow-ups are due.
TranscriptEvents ==
  { e \in UpstreamEvents :
      \/ e.type \in {"response.audio_transcript.delta",
                     "response.audio_transcript.done",
                     "input_audio_buffer.speech_started", "response.created"}
      \/ /\ e.type = "response.output_item.done"
         /\ e.item_type = "function_call"
         /\ e.name = "set_scenario"
         /\ e.arguments.kind = "object"
         /\ "severity" \in DOMAIN e.arguments.value
         /\ e.arguments.value.severity = "critical"
         /\ e.arguments.value.scenario = "cpr" }

NextTranscript ==
  \/ Tick(StepQuiet, HorizonTranscript)
  \/ Core
  \/ /\ rt_recv_count < EventsTranscript
     /\ \E e \in TranscriptEvents :
          \/ RT_TranscriptDelta(e) \/ RT_TranscriptDone(e)
          \/ RT_SpeechStarted(e) \/ RT_ResponseCreated(e) \/ RT_ToolCall(e)
  \/ RT_IosDone
  \/ ToolRouter
  \/ FU_ItemSent \/ FU_ResponseSent

SpecTranscript == Init /\ [][NextTranscript]_vars

\* The pace of follow-ups, on the clock of the loop's poll: a critical
\* scenario, and responses starting and ending.
PaceEvents ==
  { e \in UpstreamEvents :
      \/ e.type \in {"response.created", "response.done"}
      \/ /\ e.type = "response.output_item.done"
         /\ e.item_type = "function_call"
         /\ e.name = "set_scenario"
         /\ e.arguments.kind = "object"
         /\ "severity" \in DOMAIN e.arguments.value
         /\ e.arguments.value.severity = "critical"
         /\ e.arguments.value.scenario = "cpr" }

NextPace ==
  \/ Tick(StepPoll, HorizonPace)
  \/ Core
  \/ /\ rt_recv_count < EventsPace
     /\ \E e \in PaceEvents :
          RT_ToolCall(e) \/ RT_ResponseCreated(e) \/ RT_ResponseDone(e)
  \/ ToolRouter
  \/ FU_ItemSent \/ FU_ResponseSent

SpecPace == Init /\ [][NextPace]_vars

\* Delivery to a client that may have gone away: one event of every kind the
\* relay tells the client of, a frame, and an observation.
DeliveryMsgs == { m \in ClientMsgs : m.data = "f1" }

DeliveryEvents ==
  { e \in UpstreamEvents :
      \/ e.type \in {"response.audio_transcript.done",
                     "input_audio_buffer.speech_started",
                     "conversation.item.input_audio_transcription.completed"}
      \/ e.type = "response.audio.delta" /\ e.delta = "pcm1"
      \/ e.type = "response.audio_transcript.delta" /\ e.delta = "d1"
      \/ /\ e.type = "response.output_item.done"
         /\ e.item_type = "function_call"
         /\ e.arguments.kind = "object"
         /\ "severity" \in DOMAIN e.arguments.value
         /\ e.arguments.value.severity = "critical"
         /\ e.arguments.value.scenario = "cpr" }

NextDelivery ==
  \/ Tick(StepPoll, HorizonDelivery)
  \/ Core
  \/ ClientDisconnect \/ IOS_Disconnected
  \/ /\ Len(ios_received) < MsgsDelivery
     /\ \E m \in DeliveryMsgs : IOS_Recv(m)
  \/ /\ rt_recv_count < EventsDelivery
     /\ \E e \in DeliveryEvents :
          \/ RT_AudioDelta(e) \/ RT_TranscriptDelta(e) \/ RT_TranscriptDone(e)
          \/ RT_SpeechStarted(e) \/ RT_UserTranscript(e) \/ RT_ToolCall(e)
  \/ RT_IosDone
  \/ ToolRouter
  \/ /\ Len(scene_observations) < ObsDelivery
     /\ SC_Analyzed(ObsB)
  \/ SC_Sent \/ SC_IosDone

SpecDelivery == Init /\ [][NextDelivery]_vars

\* ------------------------------------------------------------ the claims
Count(seq, P(_)) == Cardinality({ i \in DOMAIN seq : P(seq[i]) })

IsAck(m, c) ==
  /\ m.type = "conversation.item.create"
  /\ m.item_type = "function_call_output"
  /\ m.call_id = c

IsContinuation(m, c) ==
  /\ m.type = "response.create"
  /\ m.origin = "tool_call"
  /\ m.call_id = c

IsFunctionCall(e) ==
  /\ e.type = "response.output_item.done"
  /\ e.item_type = "function_call"

AcksOf(c) == Count(rt_sent, LAMBDA m : IsAck(m, c))

ContinuationsOf(c) == Count(rt_sent, LAMBDA m : IsContinuation(m, c))

\* C1, as claimed: once the relay is through with a function call (it waits
\* for the next event, or it has ended) on a session whose connections are
\* up and which nobody cancelled, exactly one function_call_output with the
\* call's id and exactly one response.create for it have been sent upstream;
\* and no call ever has more than one of either.
C1_OneAckOneContinuation ==
  /\ \A c \in 1..rt_recv_count : AcksOf(c) <= 1 /\ ContinuationsOf(c) <= 1
  /\ (/\ gw_pc = "gather"
      /\ rt_ws = "open"
      /\ rt_pc \in {"recv", "done"}
      /\ IsFunctionCall(event))
     => /\ AcksOf(rt_recv_count) = 1
        /\ ContinuationsOf(rt_recv_count) = 1

\* The variant a scenario name of the tool's catalog stands for.
ScenarioVariant ==
  [s \in {"cpr", "bleeding", "resolved"} |->
     CASE s = "cpr" -> "CPR"
       [] s = "bleeding" -> "BLEEDING"
       [] OTHER -> "RESOLVED"]

IsSetScenario(e) ==
  /\ IsFunctionCall(e)
  /\ e.name = "set_scenario"
  /\ e.arguments.kind = "object"
  /\ {"scenario", "severity"} \subseteq DOMAIN e.arguments.value

\* C2: when the router has handled a set_scenario call with scenario s and
\* severity v and the relay is back to waiting, scenario_state is the variant
\* s names, scenario_severity is v, a scenario_update with the call's
\* scenario, severity, summary and body_region has been sent to the client,
\* and a function_call_output with status ok and a response.create for the
\* call have been sent upstream.
C2_SetScenarioApplied ==
  (rt_pc = "recv" /\ IsSetScenario(event)) =>
    LET a == event.arguments.value IN
    /\ scenario_state = ScenarioVariant[a.scenario]
    /\ scenario_severity = a.severity
    /\ \E i \in DOMAIN ios_sent :
         ios_sent[i].msg = [type |-> "scenario_update",
                            scenario |-> a.scenario,
                            severity |-> a.severity,
                            summary |-> Get(a, "summary", ""),
                            body_region |-> Get(a, "body_region", "")]
    /\ \E i \in DOMAIN rt_sent :
         /\ IsAck(rt_sent[i], rt_recv_count)
         /\ rt_sent[i].output = [status |-> "ok"]
    /\ \E i \in DOMAIN rt_sent : IsContinuation(rt_sent[i], rt_recv_count)

C2_Witness ==
  /\ rt_pc = "recv"
  /\ IsSetScenario(event)
  /\ event.arguments.value.scenario = "bleeding"
  /\ scenario_state = "BLEEDING"
  /\ scenario_severity = "moderate"

SessionDestroyed ==
  /\ gw_pc = "cleaned"
  /\ _shutdown
  /\ rt_ws \in {None, "closed"}
  /\ log_saved # "no"

\* C3, as claimed: whenever the client connection has ended or one of the
\* loops has ended, the session is eventually destroyed: run() has returned,
\* shutdown has set _shutdown, closed the upstream connection and saved the
\* logs.
C3_EventuallyDestroyed ==
  (ios_state = "closed" \/ ios_pc = "done" \/ rt_pc = "done") ~> SessionDestroyed

IsFollowUp(m) ==
  /\ m.type = "conversation.item.create"
  /\ m.item_type = "message"
  /\ m.tag = "FOLLOW UP"

\* A step that sends a follow-up item upstream.
FollowUpInjected ==
  /\ Len(rt_sent') = Len(rt_sent) + 1
  /\ IsFollowUp(rt_sent'[Len(rt_sent')])

\* A step in which the relay takes a user-speech event: a completed
\* transcription or speech-started.
UserSpeechStep ==
  /\ rt_recv_count' = rt_recv_count + 1
  /\ event'.type \in {"conversation.item.input_audio_transcription.completed",
                      "input_audio_buffer.speech_started"}

\* C5: _follow_up_count is always between 0 and 3; no more than 3 follow-ups
\* are injected after one user-speech event and before the next, however the
\* steps of the follow-up loop and of the relay interleave; and a user-speech
\* event that finds the count at 0 leaves it there.
C5_FollowUpCountBounded ==
  /\ [](_follow_up_count \in 0..3 /\ follow_ups_since_speech \in 0..3)
  /\ [][(UserSpeechStep /\ _follow_up_count = 0) => UNCHANGED _follow_up_count]_vars

C5_Witness ==
  /\ _follow_up_count = 3
  /\ follow_ups_since_speech = 3

\* A step in which the follow-up loop wakes from its poll sleep.
FollowUpTick ==
  /\ fu_pc = "sleep"
  /\ fu_sleep = 0
  /\ <<fu_pc, fu_sleep>>' # <<fu_pc, fu_sleep>>

\* C6: a tick of the follow-up loop with no response in progress, scenario
\* CPR, follow-up count 0, at least 30 seconds since the user spoke and at
\* least 15 since the agent did, sends a follow-up upstream when the severity
\* is critical and sends none when it is minor.
C6_FollowUpOnCriticalNotMinor ==
  [][(/\ FollowUpTick
      /\ ~_response_in_progress
      /\ scenario_state = "CPR"
      /\ _follow_up_count = 0
      /\ now - _last_user_speech_time >= 30
      /\ now - _last_agent_speech_time >= 15)
     => /\ scenario_severity = "critical" => FollowUpInjected
        /\ scenario_severity = "minor" => UNCHANGED rt_sent]_vars

C6_Witness ==
  /\ fu_pc = "send_item"
  /\ scenario_state = "CPR"
  /\ scenario_severity = "critical"
  /\ _follow_up_count = 0
  /\ now - _last_user_speech_time >= 30
  /\ IsFollowUp(rt_sent[Len(rt_sent)])

\* C7: no step sends a follow-up upstream while scenario_state is NONE,
\* RESOLVED or MINOR_INJURY, whatever the severity and however long the
\* silence.
C7_NoFollowUpWhileInactive ==
  [][FollowUpInjected => scenario_state \notin {"NONE", "RESOLVED", "MINOR_INJURY"}]_vars

C7_Witness ==
  /\ scenario_state = "RESOLVED"
  /\ scenario_severity = "critical"
  /\ now - _last_user_speech_time >= 45
  /\ now - _last_agent_speech_time >= 15
  /\ ~_response_in_progress
  /\ fu_pc = "sleep"
  /\ fu_sleep = FOLLOW_UP_POLL
  /\ Count(rt_sent, IsFollowUp) = 0

IsSceneUpdate(m) ==
  /\ m.type = "conversation.item.create"
  /\ m.item_type = "message"
  /\ m.tag = "SCENE UPDATE"

\* The scene updates sent upstream, in order.
SceneUpdates == SelectSeq(rt_sent, IsSceneUpdate)

\* C8, as claimed: no two scene updates sent upstream have the same
\* normalized first 50 characters.
C8_NoTwoSimilarSent ==
  \A i, j \in DOMAIN SceneUpdates :
    i < j => Normalize(SceneUpdates[i].text) # Normalize(SceneUpdates[j].text)

\* C8, amended: no two scene updates sent upstream one right after the other
\* have the same normalized first 50 characters.
C8_NoConsecutiveSimilarSent ==
  \A i \in DOMAIN SceneUpdates :
    i > 1 => Normalize(SceneUpdates[i].text) # Normalize(SceneUpdates[i - 1].text)

C8_Witness ==
  /\ Len(SceneUpdates) = 3
  /\ Normalize(SceneUpdates[1].text) = Normalize(SceneUpdates[3].text)
  /\ SceneUpdates[1].text # SceneUpdates[3].text

\* The data of the last frame message of a sequence of client messages.
LastFrame(msgs) ==
  LET F == { i \in DOMAIN msgs : msgs[i].type = "frame" }
  IN  IF F = {} THEN None
      ELSE msgs[CHOOSE i \in F : \A j \in F : j <= i].data

\* C9: the frame analyze_scene was called with is the last frame the client
\* relay had received when the call was made, so never a frame that a later
\* one had replaced.
C9_LatestFrameAnalyzed ==
  analyze_calls # <<>> =>
    analyze_calls[1].frame_b64 =
      LastFrame(SubSeq(ios_received, 1, analyze_calls[1].received))

C9_Witness ==
  /\ analyze_calls # <<>>
  /\ analyze_calls[1].received = 2
  /\ ios_received[1].type = "frame"
  /\ ios_received[2].type = "frame"
  /\ ios_received[1].data # ios_received[2].data
  /\ analyze_calls[1].frame_b64 = ios_received[2].data

\* C10: the step in which the relay handles a completed user transcription
\* with text T leaves recent_user_transcript at T, _follow_up_count at 0 and
\* _last_user_speech_time at the current time, and passes a transcript
\* message with role user and text T to the client connection.
C10_UserTranscriptHandled ==
  [][(/\ rt_recv_count' = rt_recv_count + 1
      /\ event'.type = "conversation.item.input_audio_transcription.completed")
     => /\ recent_user_transcript' = event'.transcript
        /\ _follow_up_count' = 0
        /\ _last_user_speech_time' = now'
        /\ Len(ios_sent') = Len(ios_sent) + 1
        /\ ios_sent'[Len(ios_sent')].msg =
             [type |-> "transcript", role |-> "user", text |-> event'.transcript]]_vars

C10_Witness ==
  /\ rt_pc = "ios"
  /\ event.type = "conversation.item.input_audio_transcription.completed"
  /\ recent_user_transcript = event.transcript
  /\ _follow_up_count = 0
  /\ _last_user_speech_time = now
  /\ now >= 30
  /\ Count(rt_sent, IsFollowUp) > 0

\* Every loop has ended, or was never started.
LoopsEnded ==
  /\ ios_pc \in {"idle", "done"}
  /\ rt_pc \in {"idle", "done"}
  /\ sc_pc \in {"idle", "done"}
  /\ fu_pc \in {"idle", "done"}

C12_RelaySurvivesEventErrors ==
  (gw_pc = "gather" /\ rt_ws = "open") => rt_pc # "done"

\* A step that cancels run(): it leaves gather with all four loops ended.
Cancelled == gw_pc' = "finally" /\ LoopsEnded'

\* C13: while run() waits in gather, a step that is not its cancellation
\* leaves it waiting there, and a step in which one loop ends leaves the
\* other three where they are.
C13_FailureStaysInItsLoop ==
  [][(gw_pc = "gather" /\ ~Cancelled) =>
       /\ gw_pc' = "gather"
       /\ (ios_pc # "done" /\ ios_pc' = "done") => UNCHANGED <<rt_pc, sc_pc, fu_pc>>
       /\ (rt_pc # "done" /\ rt_pc' = "done") => UNCHANGED <<ios_pc, sc_pc, fu_pc>>
       /\ (sc_pc # "done" /\ sc_pc' = "done") => UNCHANGED <<ios_pc, rt_pc, fu_pc>>
       /\ (fu_pc # "done" /\ fu_pc' = "done") => UNCHANGED <<ios_pc, rt_pc, sc_pc>>]_vars

C13_Witness ==
  /\ gw_pc = "gather"
  /\ ios_pc = "done"
  /\ ios_received # <<>> /\ ios_received[1].type = "malformed"
  /\ fu_pc = "done"
  /\ Count(rt_sent, IsFollowUp) = 1
  /\ rt_pc = "recv"
  /\ sc_pc = "sleep"

IsResponseCreate(m) == m.type = "response.create"

IsFollowUpResponse(m) == m.type = "response.create" /\ m.origin = "follow_up"

\* C14, as claimed: when the session runs with its upstream connection up
\* and neither the relay nor the follow-up loop is in the middle of its
\* sends, every follow-up item sent upstream has its response.create, and
\* the response.create messages sent upstream are as many as the follow-ups
\* injected and the function calls received together; a scene update adds
\* none.
C14_ResponseCreateAccounting ==
  (/\ gw_pc = "gather"
   /\ rt_ws = "open"
   /\ rt_pc \in {"recv", "done"}
   /\ fu_pc \notin {"send_item", "send_response"})
  => /\ Count(rt_sent, IsFollowUpResponse) = Count(rt_sent, IsFollowUp)
     /\ Count(rt_sent, IsResponseCreate) =
          Count(rt_sent, IsFollowUp) + Count(rt_received, IsFunctionCall)

IsAudioAppend(m) == m.type = "input_audio_buffer.append"

IsClientAudio(m) == m.type = "audio"

IsAudioDelta(e) == e.type = "response.audio.delta"

IsAudioChunk(c) == c.msg.type = "audio"

\* The audio sent upstream, the audio received from the client, the audio
\* chunks sent to the client and the audio deltas received from upstream.
AudioUp == LET s == SelectSeq(rt_sent, IsAudioAppend) IN [i \in DOMAIN s |-> s[i].audio]

AudioIn == LET s == SelectSeq(ios_received, IsClientAudio) IN [i \in DOMAIN s |-> s[i].data]

AudioDown == LET s == SelectSeq(ios_sent, IsAudioChunk) IN [i \in DOMAIN s |-> s[i].msg.data]

AudioOut == LET s == SelectSeq(rt_received, IsAudioDelta) IN [i \in DOMAIN s |-> s[i].delta]

\* C15: the audio appended upstream is the audio received from the client,
\* message for message and in the same order, and the audio chunks sent to
\* the client are the audio deltas received from upstream, delta for delta
\* and in the same order, whatever the other loops do in between.
C15_StreamsKeepArrivalOrder ==
  /\ AudioUp = AudioIn
  /\ AudioDown = AudioOut

C15_Witness ==
  /\ Len(AudioUp) = 2 /\ AudioUp[1] # AudioUp[2]
  /\ Len(AudioDown) = 2 /\ AudioDown[1] # AudioDown[2]
  /\ Len(ios_sent) > 2

\* C16: the logs are written, or fail to be written, only once the shutdown
\* flag is set and the upstream connection, if there is one, has been
\* closed; whether the write worked or failed, shutdown has returned and the
\* session is cleaned up; and a session is never cleaned up without the
\* write having been attempted.
C16_LogsSavedAtShutdown ==
  /\ log_saved # "no" =>
       /\ _shutdown
       /\ rt_ws # None => (rt_ws = "closed" /\ rt_close_calls = 1)
       /\ gw_pc = "cleaned"
  /\ gw_pc = "cleaned" => log_saved # "no"
  /\ gw_pc \in {"closing", "cleaned"} => _shutdown

C16_Witness ==
  /\ log_saved = "failed"
  /\ gw_pc = "cleaned"
  /\ rt_close_calls = 1

\* C17, as claimed: the first follow-up of a period of silence is sent when
\* the user has been silent for 30 seconds or more, and a follow-up that
\* comes after another with no user speech in between is sent 45 seconds or
\* more after that one (fu_now holds the time the loop read for its latest
\* follow-up).
C17_FollowUpsEvery45s ==
  [][FollowUpInjected =>
       IF follow_ups_since_speech = 0
         THEN now - _last_user_speech_time >= FIRST_THRESHOLD
         ELSE now - fu_now >= NEXT_THRESHOLD]_vars

\* The silence a follow-up needs, by the count of follow-ups so far.
SilenceNeeded == IF _follow_up_count = 0 THEN FIRST_THRESHOLD ELSE NEXT_THRESHOLD

ThresholdsMet ==
  /\ now - _last_user_speech_time >= SilenceNeeded
  /\ now - _last_agent_speech_time >= AGENT_QUIET

\* C18: a follow-up is injected only when the user has been silent for 30
\* seconds (45 once a follow-up has been counted) and the agent for 15; a
\* tick of the follow-up loop that finds either threshold unmet sends nothing
\* upstream and leaves _follow_up_count and _last_agent_speech_time alone.
C18_FollowUpThresholds ==
  [][/\ FollowUpInjected => ThresholdsMet
     /\ (FollowUpTick /\ ~ThresholdsMet) =>
          UNCHANGED <<rt_sent, _follow_up_count, _last_agent_speech_time>>]_vars

\* A second follow-up has been injected, and the agent spoke during the
\* session.
C18_Witness ==
  /\ follow_ups_since_speech = 2
  /\ _follow_up_count >= 1
  /\ \E i \in DOMAIN rt_received : rt_received[i].type = "response.done"

\* A step that sends a scene update upstream.
SceneInjected ==
  /\ Len(rt_sent') = Len(rt_sent) + 1
  /\ IsSceneUpdate(rt_sent'[Len(rt_sent')])

\* C19, as claimed: no scene update is sent upstream while a response is in
\* progress, a response that started during the analysis included.
C19_NoSceneUpdateDuringResponse ==
  [][SceneInjected => ~_response_in_progress]_vars

\* A step that sends the response.create of a follow-up upstream.
FollowUpResponseRequested ==
  /\ Len(rt_sent') = Len(rt_sent) + 1
  /\ IsFollowUpResponse(rt_sent'[Len(rt_sent')])

\* C20, as claimed: the response.create of a follow-up is never sent upstream
\* while a response is in progress.
C20_NoFollowUpResponseDuringResponse ==
  [][FollowUpResponseRequested => ~_response_in_progress]_vars

\* The messages a tool call sends to the client.
IsToolNotification(c) == c.msg.type \in {"scenario_update", "tool"}

\* A step that sends the acknowledgment of a tool call upstream.
ToolAckSent ==
  /\ Len(rt_sent') = Len(rt_sent) + 1
  /\ IsAck(rt_sent'[Len(rt_sent')], call_id)

\* A step that sends the continuation request of a tool call upstream.
ToolContinuationSent ==
  /\ Len(rt_sent') = Len(rt_sent) + 1
  /\ IsContinuation(rt_sent'[Len(rt_sent')], call_id)

\* C21: when the acknowledgment of a tool call is sent, its continuation
\* request has not been sent and every function call received so far has had
\* its message sent to the client; when the continuation request is sent, the
\* acknowledgment of the call has been sent and _response_in_progress is
\* false.
C21_AckThenContinuation ==
  [][/\ ToolAckSent =>
          /\ ContinuationsOf(call_id) = 0
          /\ Count(ios_sent, IsToolNotification) = Count(rt_received, IsFunctionCall)
     /\ ToolContinuationSent =>
          /\ AcksOf(call_id) = 1
          /\ ~_response_in_progress']_vars

\* A response had started when the call came, and the call has been
\* continued.
C21_Witness ==
  /\ Len(rt_received) = 2
  /\ rt_received[1].type = "response.created"
  /\ IsFunctionCall(rt_received[2])
  /\ ContinuationsOf(2) = 1
  /\ ~_response_in_progress

\* A step in which the relay, not shutting down, takes a function call.
ToolCallStep ==
  /\ rt_recv_count' = rt_recv_count + 1
  /\ IsFunctionCall(event')
  /\ ~_shutdown

\* C22, as claimed: a call of a tool other than set_scenario leaves the
\* scenario and its severity as they were and sends the client one tool
\* message with the tool's name and the parsed arguments; and the scenario
\* and its severity change only in a step that takes a set_scenario call.
C22_OtherToolsPassThrough ==
  [][/\ (ToolCallStep /\ event'.name # "set_scenario") =>
          /\ UNCHANGED <<scenario_state, scenario_severity>>
          /\ Len(ios_sent') = Len(ios_sent) + 1
          /\ ios_sent'[Len(ios_sent')].msg =
               [type |-> "tool", name |-> event'.name,
                params |-> ParseArgs(event'.arguments).value]
     /\ <<scenario_state, scenario_severity>>' # <<scenario_state, scenario_severity>> =>
          (ToolCallStep /\ event'.name = "set_scenario")]_vars

\* C23, as claimed: on a session that runs with its upstream connection up,
\* once the relay is through with a function call whose arguments are not
\* JSON, are JSON but no object, or are null, the relay has not ended and the
\* call's acknowledgment and continuation request have been sent upstream.
C23_UnparsableArgsHandled ==
  \A i \in DOMAIN rt_received :
    (/\ IsFunctionCall(rt_received[i])
     /\ rt_received[i].arguments.kind # "object"
     /\ gw_pc = "gather"
     /\ rt_ws = "open"
     /\ rt_pc \in {"recv", "done"})
    => /\ rt_pc # "done"
       /\ AcksOf(i) = 1
       /\ ContinuationsOf(i) = 1

\* A set_scenario call whose arguments are no JSON object or name no
\* scenario.
NamesNoScenario(e) ==
  /\ IsFunctionCall(e)
  /\ e.name = "set_scenario"
  /\ \/ e.arguments.kind # "object"
     \/ "scenario" \notin DOMAIN e.arguments.value

\* C24, as claimed: a step that takes a set_scenario call with malformed
\* arguments or without the scenario leaves the scenario NONE and the
\* severity minor, whatever they were; and no follow-up is injected while
\* such a call is the last event the relay received.
C24_DegenerateSetScenarioResets ==
  [][/\ (ToolCallStep /\ NamesNoScenario(event')) =>
          (scenario_state' = "NONE" /\ scenario_severity' = "minor")
     /\ (FollowUpInjected /\ rt_received # <<>>) =>
          ~NamesNoScenario(rt_received[Len(rt_received)])]_vars

\* A step in which the relay, not shutting down, takes an event of the type.
RelayTakes(type) ==
  /\ rt_recv_count' = rt_recv_count + 1
  /\ event'.type = type
  /\ ~_shutdown

\* Where the assistant's turn in progress begins in the events received:
\* after the last barge-in or transcript end.
TurnStart ==
  LET ends == { i \in DOMAIN rt_received :
                  rt_received[i].type \in {"input_audio_buffer.speech_started",
                                           "response.audio_transcript.done"} }
  IN  IF ends = {} THEN 0 ELSE CHOOSE i \in ends : \A j \in ends : j <= i

IsTranscriptDelta(e) == e.type = "response.audio_transcript.delta"

\* The transcript deltas received in the turn in progress.
TurnDeltas ==
  LET s == SelectSeq(SubSeq(rt_received, TurnStart + 1, Len(rt_received)),
                     IsTranscriptDelta)
  IN  [i \in DOMAIN s |-> s[i].delta]

\* C25: the step in which the relay takes speech-started leaves
\* _response_in_progress false, _follow_up_count 0, _last_user_speech_time
\* the current time and the assistant text empty, and sends the client an
\* interrupt; and the step that takes a transcript end logs the deltas
\* received since the last barge-in or transcript end, if there are any, and
\* nothing otherwise.
C25_BargeInResets ==
  [][/\ RelayTakes("input_audio_buffer.speech_started") =>
          /\ ~_response_in_progress'
          /\ _follow_up_count' = 0
          /\ _last_user_speech_time' = now
          /\ _current_assistant_text' = <<>>
          /\ Len(ios_sent') = Len(ios_sent) + 1
          /\ ios_sent'[Len(ios_sent')].msg = [type |-> "interrupt"]
     /\ RelayTakes("response.audio_transcript.done") =>
          IF TurnDeltas = <<>>
            THEN UNCHANGED transcript_entries
            ELSE transcript_entries' =
                   Append(transcript_entries,
                          [role |-> "assistant", text |-> TurnDeltas])]_vars

\* A follow-up had been counted, a response had started and a delta had come
\* when the user barged in; the transcript end came after.
C25_Witness ==
  /\ Len(rt_received) = 4
  /\ rt_received[2].type = "response.audio_transcript.delta"
  /\ rt_received[3].type = "input_audio_buffer.speech_started"
  /\ rt_received[4].type = "response.audio_transcript.done"
  /\ Count(rt_sent, IsFollowUp) = 1
  /\ _follow_up_count = 0
  /\ _last_user_speech_time = 30

\* The step that ends a follow-up: its response.create has been sent.
FollowUpCounted ==
  /\ fu_pc = "send_response"
  /\ fu_pc' # "send_response"

\* C26: the step that ends a follow-up adds one to _follow_up_count and
\* sets _last_agent_speech_time to the time its tick read; and a follow-up
\* that is not the session's first is injected 15 seconds or more after the
\* tick of the one before it (fu_now), whatever responses started or ended in
\* between.
C26_FollowUpsKeepApart ==
  [][/\ FollowUpCounted =>
          /\ _follow_up_count' = _follow_up_count + 1
          /\ _last_agent_speech_time' = fu_now
     /\ (FollowUpInjected /\ Count(rt_sent, IsFollowUp) >= 1) =>
          now - fu_now >= AGENT_QUIET]_vars

\* A second follow-up has been injected, after a response started.
C26_Witness ==
  /\ Count(rt_sent, IsFollowUp) = 2
  /\ _follow_up_count = 1
  /\ fu_pc = "send_item"
  /\ Len(rt_received) = 2
  /\ rt_received[2].type = "response.created"

\* C27, as claimed: _last_agent_speech_time and _last_user_speech_time never
\* decrease.
C27_SpeechTimesNeverDecrease ==
  [][/\ _last_agent_speech_time' >= _last_agent_speech_time
     /\ _last_user_speech_time' >= _last_user_speech_time]_vars

\* The texts of the assistant turns the events received have completed: for
\* each transcript end, the deltas that came since the one before it.
RECURSIVE CompletedTurns(_, _, _)
CompletedTurns(i, text, turns) ==
  IF i > Len(rt_received) THEN turns
  ELSE LET e == rt_received[i]
       IN  IF e.type = "response.audio_transcript.delta"
             THEN CompletedTurns(i + 1, Append(text, e.delta), turns)
           ELSE IF e.type = "response.audio_transcript.done"
             THEN CompletedTurns(i + 1, <<>>,
                                 IF text = <<>> THEN turns ELSE Append(turns, text))
           ELSE CompletedTurns(i + 1, text, turns)

IsAssistantEntry(entry) == entry.role = "assistant"

AssistantTexts ==
  LET s == SelectSeq(transcript_entries, IsAssistantEntry)
  IN  [i \in DOMAIN s |-> s[i].text]

\* C28, as claimed: when every assistant turn begun has ended with its
\* transcript end, and no barge-in has come, the assistant entries of the log
\* are the texts of those turns, one entry a turn.
C28_OneLogEntryPerTurn ==
  (/\ TurnDeltas = <<>>
   /\ \A i \in DOMAIN rt_received :
        rt_received[i].type # "input_audio_buffer.speech_started")
  => AssistantTexts = CompletedTurns(1, <<>>, <<>>)

\* A step in which the scene loop calls analyze_scene.
AnalysisInvoked == sc_pc # "analyze" /\ sc_pc' = "analyze"

\* A step in which the follow-up loop goes on to send a follow-up.
FollowUpAttempted == FollowUpTick /\ FollowUpDue

\* A step in which the client relay takes an audio message, which it goes on
\* to send upstream.
AudioAttempted ==
  /\ Len(ios_received') = Len(ios_received) + 1
  /\ ios_received'[Len(ios_received')].type = "audio"

\* C29: once _shutdown is set, the scene loop calls analyze_scene no more,
\* the follow-up loop goes on to no follow-up, and the client relay takes no
\* audio message to send upstream.
C29_NoNewWorkAfterShutdown ==
  [][_shutdown => ~AnalysisInvoked /\ ~FollowUpAttempted /\ ~AudioAttempted]_vars

\* The session did work and has been shut down.
C29_Witness ==
  /\ _shutdown
  /\ gw_pc = "cleaned"
  /\ Len(ios_received) = 1
  /\ Count(rt_sent, IsFollowUp) = 1

\* The messages of the type that the client did not take.
Undelivered(type) ==
  { i \in DOMAIN ios_sent : ios_sent[i].msg.type = type /\ ~ios_sent[i].ok }

\* C30: with a client that may be gone and no other failure, the relay and
\* the scene loop never end; every function call the relay is through with
\* has its acknowledgment and its continuation request upstream; and every
\* set_scenario call received has updated the scenario.
C30_ClientFailuresSwallowed ==
  /\ rt_pc # "done"
  /\ sc_pc # "done"
  /\ \A i \in DOMAIN rt_received :
       (IsFunctionCall(rt_received[i]) /\ (i < Len(rt_received) \/ rt_pc = "recv"))
       => (AcksOf(i) = 1 /\ ContinuationsOf(i) = 1)
  /\ Count(rt_received, IsSetScenario) = Len(scenario_updates)

\* The client took neither the scenario update nor the scene update; the
\* call was continued and the scene loop sleeps again.
C30_Witness ==
  /\ ios_state = "closed"
  /\ Undelivered("scenario_update") # {}
  /\ Undelivered("scene_update") # {}
  /\ scenario_state = "CPR"
  /\ \E i \in DOMAIN rt_received : ContinuationsOf(i) = 1
  /\ rt_pc = "recv"
  /\ sc_pc = "sleep"

====
